---- MODULE Spec2Model ----
(***************************************************************************)
(* Room relay of src/main.py: the ConnectionManager registry (two dicts    *)
(* room -> set of WebSocket), its broadcast loops, the two WebSocket       *)
(* endpoint handlers and the join_room HTTP handler.                       *)
(*                                                                         *)
(* Every `await` of the source is a suspension point: the code between two *)
(* awaits of one task is one atomic action, tasks interleave at awaits.    *)
(***************************************************************************)
EXTENDS Integers, Sequences, FiniteSets, TLC

\* ---------------------------------------------------------------- bounds
NumHandles == 2      \* WebSocket objects (one per network connection)
MaxEvents  == 4      \* upgrade requests, join requests and inbound units that a
                     \* receive returns, in total (a receive that raises ends
                     \* its session and needs no bound)
MaxOps     == 3      \* length of a registry operation sequence (SpecReg)

Handles  == 1..NumHandles
JoinTask == 0                      \* the task running join_room
Tasks    == {JoinTask} \cup Handles
Rooms    == {"R1", "R2"}
Kinds    == {"STATE", "VOICE"}
Players  == {"p7"}

\* Parsed JSON values (dicts) and audio frames (bytes) the relay passes on.
Messages == {"move", "roll"}
Frames   == {"DEADBEEF"}
JoinMsg(player) == "player_joined:" \o player
Payloads == Messages \cup Frames \cup {JoinMsg(p) : p \in Players}

\* ------------------------------------------------------- inbound units
\* ASGI events the transport delivers to WebSocket.receive().
TextUnits   == {[type |-> "websocket.receive", text |-> t] :
                   t \in {"{\"type\":\"move\"}", "{ \"type\" : \"move\" }",
                          "{\"type\":\"roll\"}", "{bad"}}
BytesUnits  == {[type |-> "websocket.receive", bytes |-> f] : f \in Frames}
NullBytesUnits == {[type |-> "websocket.receive", bytes |-> "None", text |-> "hi"]}
DisconnectUnit == [type |-> "websocket.disconnect"]
Units == TextUnits \cup BytesUnits \cup NullBytesUnits \cup {DisconnectUnit}

\* json.loads as receive_json applies it to the text of a unit.
json_loads(text) ==
    CASE text = "{\"type\":\"move\"}"     -> [ok |-> TRUE,  value |-> "move"]
      [] text = "{ \"type\" : \"move\" }" -> [ok |-> TRUE,  value |-> "move"]
      [] text = "{\"type\":\"roll\"}"     -> [ok |-> TRUE,  value |-> "roll"]
      [] OTHER                            -> [ok |-> FALSE, value |-> "None"]

\* websocket.receive_json() on one unit (main.py:106): the parsed data, or
\* the exception it raises.
receive_json(unit) ==
    IF unit.type = "websocket.disconnect"
    THEN [raised |-> "WebSocketDisconnect", data |-> "None"]
    ELSE IF "text" \notin DOMAIN unit
    THEN [raised |-> "KeyError", data |-> "None"]
    ELSE IF ~json_loads(unit.text).ok
    THEN [raised |-> "JSONDecodeError", data |-> "None"]
    ELSE [raised |-> "None", data |-> json_loads(unit.text).value]

\* (the test without its `is not None` half)
has_bytes_key_only(msg) == "bytes" \in DOMAIN msg

\* `"bytes" in msg and msg["bytes"] is not None` (main.py:120)
has_bytes(msg) == "bytes" \in DOMAIN msg /\ msg.bytes /= "None"

\* ------------------------------------------------------------ registry
\* A dict room -> set is a function whose DOMAIN is the set of keys.
EmptyDict == [r \in {} |-> {}]

\* d.get(room, set())
dict_get(d, room) == IF room \in DOMAIN d THEN d[room] ELSE {}

\* (d[room] = {websocket}: the room's set replaced, not extended)
setdefault_overwrite(d, room, websocket) ==
    [r \in DOMAIN d \cup {room} |-> IF r = room THEN {websocket} ELSE d[r]]

\* d.setdefault(room, set()).add(websocket)
setdefault_add(d, room, websocket) ==
    [r \in DOMAIN d \cup {room} |->
        IF r = room THEN dict_get(d, room) \cup {websocket} ELSE d[r]]

\* d[room].remove(websocket): KeyError when the key or the element is absent.
set_remove(d, room, websocket) ==
    IF room \in DOMAIN d /\ websocket \in d[room]
    THEN [raised |-> FALSE, dict |-> [d EXCEPT ![room] = @ \ {websocket}]]
    ELSE [raised |-> TRUE,  dict |-> d]

\* (a removal without the membership test)
remove_unguarded(d, room, websocket) == set_remove(d, room, websocket)

\* `if room in d and websocket in d[room]: d[room].remove(websocket)`
remove_if_present(d, room, websocket) ==
    IF room \in DOMAIN d /\ websocket \in d[room]
    THEN set_remove(d, room, websocket)
    ELSE [raised |-> FALSE, dict |-> d]

\* The manager object (`self`): a record of its two dicts.
NewManager == [active_connections |-> EmptyDict, voice_connections |-> EmptyDict]

\* (the handle added to the set before the accept is awaited)
connect_register_first(self, room, websocket, accepted) ==
    [self EXCEPT !.active_connections = setdefault_add(@, room, websocket)]

\* ConnectionManager.connect, given how `await websocket.accept()` ended
connect(self, room, websocket, accepted) ==
    IF accepted
    THEN [self EXCEPT !.active_connections = setdefault_add(@, room, websocket)]
    ELSE self

\* (the voice endpoint registering through manager.connect as well)
voice_register_both(self, room, websocket, accepted) ==
    IF accepted
    THEN [active_connections |-> setdefault_add(self.active_connections, room, websocket),
          voice_connections  |-> setdefault_add(self.voice_connections, room, websocket)]
    ELSE self

\* voice_endpoint's accept and registration, given how the accept ended
voice_register(self, room, websocket, accepted) ==
    IF accepted
    THEN [self EXCEPT !.voice_connections = setdefault_add(@, room, websocket)]
    ELSE self

\* (the second `if` written as `elif`)
disconnect_elif(self, room, websocket) ==
    LET a == remove_if_present(self.active_connections, room, websocket)
    IN  IF a.dict /= self.active_connections
        THEN [self |-> [self EXCEPT !.active_connections = a.dict], raised |-> a.raised]
        ELSE LET v == remove_if_present(self.voice_connections, room, websocket)
             IN  [self |-> [self EXCEPT !.voice_connections = v.dict],
                  raised |-> v.raised]

\* (the first `if` left out: only the voice set is cleaned)
disconnect_voice_only(self, room, websocket) ==
    LET v == remove_if_present(self.voice_connections, room, websocket)
    IN  [self |-> [self EXCEPT !.voice_connections = v.dict], raised |-> v.raised]

\* (the room's sets dropped whole instead of the one handle removed)
disconnect_drop_room(self, room, websocket) ==
    [self   |-> [active_connections |->
                     [r \in DOMAIN self.active_connections \ {room} |->
                         self.active_connections[r]],
                 voice_connections |->
                     [r \in DOMAIN self.voice_connections \ {room} |->
                         self.voice_connections[r]]],
     raised |-> FALSE]

\* ConnectionManager.disconnect: the manager after it, and whether it raised
disconnect(self, room, websocket) ==
    LET a == remove_if_present(self.active_connections, room, websocket)
        v == IF a.raised THEN [raised |-> FALSE, dict |-> self.voice_connections]
             ELSE remove_if_present(self.voice_connections, room, websocket)
    IN  [self   |-> [active_connections |-> a.dict, voice_connections |-> v.dict],
         raised |-> a.raised \/ v.raised]

\* ----------------------------------------------------------- broadcast
\* One call of broadcast / broadcast_voice: the snapshot list still to be
\* iterated (todo), the sends attempted so far, per recipient and in order
\* (log), and how the call stands.
NoLog  == [h \in Handles |-> <<>>]
NoCall == [room |-> "None", kind |-> "None", data |-> "None",
           todo |-> {}, log |-> NoLog, result |-> "none"]

\* (iterating over the members of every room)
snapshot_all_rooms(d, room) == UNION {d[r] : r \in DOMAIN d}

\* list(d.get(room, set())), evaluated once when the for loop starts
snapshot(d, room) == dict_get(d, room)

\* (the payload wrapped in an envelope before it is sent)
start_call_enveloped(kind, room, data, members) ==
    [room |-> room, kind |-> kind, data |-> "envelope", todo |-> members,
     log |-> NoLog, result |-> IF members = {} THEN "returned" ELSE "running"]

\* entry of the for loop over the snapshot, up to the first `await send`
start_call(kind, room, data, members) ==
    [room |-> room, kind |-> kind, data |-> data, todo |-> members, log |-> NoLog,
     result |-> IF members = {} THEN "returned" ELSE "running"]

\* ConnectionManager.broadcast up to its first await: the manager after it
\* and the call
broadcast(self, room, message) ==
    [self |-> self,
     call |-> start_call("STATE", room, message, snapshot(self.active_connections, room))]

\* (iterating over active_connections in broadcast_voice)
broadcast_voice_active(self, room, data) ==
    [self |-> self,
     call |-> start_call("VOICE", room, data, snapshot(self.active_connections, room))]

\* ConnectionManager.broadcast_voice up to its first await
broadcast_voice(self, room, data) ==
    [self |-> self,
     call |-> start_call("VOICE", room, data, snapshot(self.voice_connections, room))]

\* one iteration's bookkeeping: connection leaves the list, the attempt is logged
iterate(c, connection, sent) ==
    [c EXCEPT !.todo   = @ \ {connection},
              !.log    = [@ EXCEPT ![connection] =
                              Append(@, [data |-> c.data, sent |-> sent])],
              !.result = IF c.todo \ {connection} = {} THEN "returned" ELSE "running"]

\* (no try/except around the send: a failed send leaves the loop and the call)
send_iteration_abort(self, c, connection, sent) ==
    [self |-> self,
     call |-> IF sent THEN iterate(c, connection, sent)
              ELSE [iterate(c, connection, sent) EXCEPT !.todo = {}, !.result = "raised"]]

\* (a failed send evicts the recipient from the room's set)
send_iteration_evict(self, c, connection, sent) ==
    [self |-> IF sent THEN self
              ELSE IF c.kind = "STATE"
              THEN [self EXCEPT !.active_connections =
                        remove_if_present(@, c.room, connection).dict]
              ELSE [self EXCEPT !.voice_connections =
                        remove_if_present(@, c.room, connection).dict],
     call |-> iterate(c, connection, sent)]

\* (a failed send tried again: the element stays in the list until a send to
\* it succeeds)
send_iteration_retry(self, c, connection, sent) ==
    [self |-> self,
     call |-> IF sent THEN iterate(c, connection, sent)
              ELSE [c EXCEPT !.log = [@ EXCEPT ![connection] =
                                         Append(@, [data |-> c.data, sent |-> sent])]]]

\* (the loop running over the live set, not over a copy of it)
send_iteration_live(self, c, connection, sent) ==
    LET i    == iterate(c, connection, sent)
        d    == IF c.kind = "STATE" THEN self.active_connections
                ELSE self.voice_connections
        left == {h \in dict_get(d, c.room) : i.log[h] = <<>>}
    IN  [self |-> self,
         call |-> [i EXCEPT !.todo = left,
                            !.result = IF left = {} THEN "returned" ELSE "running"]]

\* One iteration: `try: await connection.send_*(payload)  except Exception: pass`
\* sent = FALSE is a send that raised; the loop goes on to the next element.
send_iteration(self, c, connection, sent) ==
    [self |-> self, call |-> iterate(c, connection, sent)]

\* ------------------------------------------------------------------ state
VARIABLES
    active_connections,  \* manager.active_connections: room -> set of handles
    voice_connections,   \* manager.voice_connections:  room -> set of handles
    pc,                  \* where each task stands
    endpoint,            \* per handle: the endpoint family serving it
    room_code,           \* per handle: the path parameter of its endpoint
    client_state,        \* per handle: WebSocket.client_state
    call,                \* per task: its current (or last) broadcast call
    at_call,             \* per task: who was registered when that call started
    nevents,             \* events counted against MaxEvents so far
    heard,               \* per handle: what each unit its receive returned carried,
                         \* while its handler runs
    hist                 \* registry operations applied so far (SpecReg)

vars == <<active_connections, voice_connections, pc, endpoint, room_code,
          client_state, call, at_call, nevents, heard, hist>>

\* the module-level `manager = ConnectionManager()`
manager == [active_connections |-> active_connections,
            voice_connections  |-> voice_connections]

\* the manager's two dicts after a step
Becomes(self) ==
    /\ active_connections' = self.active_connections
    /\ voice_connections' = self.voice_connections

\* The binary payload a unit carries, "None" when it carries none.
BinaryPayload(unit) == IF "bytes" \in DOMAIN unit THEN unit.bytes ELSE "None"

\* Handles registered under (room, kind), read off the two dicts.
Registered(kind, room) ==
    LET d == IF kind = "STATE" THEN active_connections ELSE voice_connections
    IN  {h \in Handles : room \in DOMAIN d /\ h \in d[room]}

\* A send can only succeed while the recipient's connection is open.
Open(h) == pc[h] \in {"recv", "bcast", "return"} /\ client_state[h] = "CONNECTED"

NotCalled == [members |-> {}, payload |-> "None"]

Init ==
    /\ active_connections = NewManager.active_connections
    /\ voice_connections = NewManager.voice_connections
    /\ pc = [t \in Tasks |-> "idle"]
    /\ endpoint = [h \in Handles |-> "None"]
    /\ room_code = [h \in Handles |-> "None"]
    /\ client_state = [h \in Handles |-> "CONNECTING"]
    /\ call = [t \in Tasks |-> NoCall]
    /\ at_call = [t \in Tasks |-> NotCalled]
    /\ nevents = 0
    /\ heard = [h \in Handles |-> <<>>]
    /\ hist = <<>>

\* (the broadcast left running on its own while the handler goes back to its
\* receive)
after_call_detached(c) ==
    IF c.result = "running" THEN "recv"
    ELSE IF c.result = "raised" THEN "raised" ELSE "return"

\* where a task stands once its broadcast call is entered or resumed: inside
\* the loop, about to return to its caller, or left by an exception
after_call(c) ==
    IF c.result = "running" THEN "bcast"
    ELSE IF c.result = "raised" THEN "raised" ELSE "return"

\* -------------------------------------------------------------- sessions
\* The gateway routes an upgrade request to one of the two endpoints.
\* WebSocket objects are fresh per connection and room codes are opaque keys:
\* handle h is the h-th connection to arrive, and the room of the first one is
\* the one called R1.
Upgrade(h, kind, room) ==
    /\ pc[h] = "idle"
    /\ \A g \in Handles : g < h => pc[g] /= "idle"
    /\ h = 1 => room = "R1"
    /\ nevents < MaxEvents
    /\ nevents' = nevents + 1
    /\ pc' = [pc EXCEPT ![h] = "pending"]
    /\ endpoint' = [endpoint EXCEPT ![h] = kind]
    /\ room_code' = [room_code EXCEPT ![h] = room]
    /\ UNCHANGED <<active_connections, voice_connections, client_state, call,
                   at_call, heard, hist>>

\* websocket_endpoint: `await manager.connect(room_code, websocket)`
GameAccept(h, accepted) ==
    /\ pc[h] = "pending" /\ endpoint[h] = "STATE"
    /\ Becomes(connect(manager, room_code[h], h, accepted))
    /\ pc' = [pc EXCEPT ![h] = IF accepted THEN "recv" ELSE "refused"]
    /\ client_state' = [client_state EXCEPT ![h] =
                           IF accepted THEN "CONNECTED" ELSE "DISCONNECTED"]
    /\ UNCHANGED <<endpoint, room_code, call, at_call, nevents, heard, hist>>

\* voice_endpoint: `await websocket.accept()` and the registration after it
VoiceAccept(h, accepted) ==
    /\ pc[h] = "pending" /\ endpoint[h] = "VOICE"
    /\ Becomes(voice_register(manager, room_code[h], h, accepted))
    /\ pc' = [pc EXCEPT ![h] = IF accepted THEN "recv" ELSE "refused"]
    /\ client_state' = [client_state EXCEPT ![h] =
                           IF accepted THEN "CONNECTED" ELSE "DISCONNECTED"]
    /\ UNCHANGED <<endpoint, room_code, call, at_call, nevents, heard, hist>>

\* websocket_endpoint: receive_json returned data; the broadcast call starts
GameReceive(h, unit) ==
    /\ pc[h] = "recv" /\ endpoint[h] = "STATE" /\ client_state[h] = "CONNECTED"
    /\ receive_json(unit).raised = "None"
    /\ nevents < MaxEvents
    /\ nevents' = nevents + 1
    /\ heard' = [heard EXCEPT ![h] = Append(@, receive_json(unit).data)]
    /\ LET b == broadcast(manager, room_code[h], receive_json(unit).data)
       IN  /\ Becomes(b.self)
           /\ call' = [call EXCEPT ![h] = b.call]
           /\ pc' = [pc EXCEPT ![h] = after_call(b.call)]
    /\ at_call' = [at_call EXCEPT ![h] =
                      [members |-> Registered("STATE", room_code[h]),
                       payload |-> receive_json(unit).data]]
    /\ UNCHANGED <<endpoint, room_code, client_state, hist>>

\* websocket_endpoint: receive_json raised WebSocketDisconnect; the except
\* clause runs manager.disconnect and the handler returns
GameDisconnect(h, unit) ==
    /\ pc[h] = "recv" /\ endpoint[h] = "STATE" /\ client_state[h] = "CONNECTED"
    /\ receive_json(unit).raised = "WebSocketDisconnect"
    /\ LET d == disconnect(manager, room_code[h], h)
       IN  /\ Becomes(d.self)
           /\ pc' = [pc EXCEPT ![h] = IF d.raised THEN "raised" ELSE "done"]
    /\ client_state' = [client_state EXCEPT ![h] = "DISCONNECTED"]
    /\ heard' = [heard EXCEPT ![h] = <<>>]
    /\ UNCHANGED <<endpoint, room_code, call, at_call, nevents, hist>>

\* websocket_endpoint: receive_json raised something the except clause does
\* not name; the exception leaves the handler
GameReceiveError(h, unit) ==
    /\ pc[h] = "recv" /\ endpoint[h] = "STATE" /\ client_state[h] = "CONNECTED"
    /\ receive_json(unit).raised \notin {"None", "WebSocketDisconnect"}
    /\ pc' = [pc EXCEPT ![h] = "raised"]
    /\ heard' = [heard EXCEPT ![h] = <<>>]
    /\ UNCHANGED <<active_connections, voice_connections, endpoint, room_code,
                   client_state, call, at_call, nevents, hist>>

\* WebSocket.receive() on one unit (main.py:119): the unit itself, with the
\* disconnect event recorded in client_state; a receive after that event raises.
receive(state, unit) ==
    IF state /= "CONNECTED"
    THEN [raised |-> "RuntimeError", msg |-> unit, state |-> state]
    ELSE [raised |-> "None", msg |-> unit,
          state |-> IF unit.type = "websocket.disconnect" THEN "DISCONNECTED" ELSE state]

\* voice_endpoint: a received unit with a binary payload is relayed
VoiceRelay(h, unit) ==
    /\ pc[h] = "recv" /\ endpoint[h] = "VOICE"
    /\ receive(client_state[h], unit).raised = "None"
    /\ has_bytes(receive(client_state[h], unit).msg)
    /\ nevents < MaxEvents
    /\ nevents' = nevents + 1
    /\ heard' = [heard EXCEPT ![h] = Append(@, BinaryPayload(unit))]
    /\ client_state' = [client_state EXCEPT ![h] = receive(client_state[h], unit).state]
    /\ LET b == broadcast_voice(manager, room_code[h], unit.bytes)
       IN  /\ Becomes(b.self)
           /\ call' = [call EXCEPT ![h] = b.call]
           /\ pc' = [pc EXCEPT ![h] = after_call(b.call)]
    /\ at_call' = [at_call EXCEPT ![h] =
                      [members |-> Registered("VOICE", room_code[h]),
                       payload |-> unit.bytes]]
    /\ UNCHANGED <<endpoint, room_code, hist>>

\* voice_endpoint: a received unit without binary payload (a text frame, a
\* null payload, the disconnect event) falls through the `if`; the loop goes on
VoiceIgnore(h, unit) ==
    /\ pc[h] = "recv" /\ endpoint[h] = "VOICE"
    /\ receive(client_state[h], unit).raised = "None"
    /\ ~has_bytes(receive(client_state[h], unit).msg)
    /\ nevents < MaxEvents
    /\ nevents' = nevents + 1
    /\ heard' = [heard EXCEPT ![h] = Append(@, BinaryPayload(unit))]
    /\ client_state' = [client_state EXCEPT ![h] = receive(client_state[h], unit).state]
    /\ UNCHANGED <<active_connections, voice_connections, pc, endpoint, room_code,
                   call, at_call, hist>>

\* voice_endpoint: receive raised something the except clause does not name;
\* the exception leaves the handler
VoiceReceiveError(h, unit) ==
    /\ pc[h] = "recv" /\ endpoint[h] = "VOICE"
    /\ receive(client_state[h], unit).raised /= "None"
    /\ pc' = [pc EXCEPT ![h] = "raised"]
    /\ heard' = [heard EXCEPT ![h] = <<>>]
    /\ UNCHANGED <<active_connections, voice_connections, endpoint, room_code,
                   client_state, call, at_call, nevents, hist>>

\* voice_endpoint: `except WebSocketDisconnect: manager.disconnect(...)`, for a
\* transport that raises WebSocketDisconnect inside the try block
VoiceDisconnect(h) ==
    /\ pc[h] = "recv" /\ endpoint[h] = "VOICE" /\ client_state[h] = "CONNECTED"
    /\ LET d == disconnect(manager, room_code[h], h)
       IN  /\ Becomes(d.self)
           /\ pc' = [pc EXCEPT ![h] = IF d.raised THEN "raised" ELSE "done"]
    /\ client_state' = [client_state EXCEPT ![h] = "DISCONNECTED"]
    /\ heard' = [heard EXCEPT ![h] = <<>>]
    /\ UNCHANGED <<endpoint, room_code, call, at_call, nevents, hist>>

\* ------------------------------------------------------------- join_room
\* POST /api/room/join: `await manager.broadcast(req.room_code, {...})`
JoinRoom(room, player) ==
    /\ pc[JoinTask] = "idle"
    /\ nevents < MaxEvents
    /\ nevents' = nevents + 1
    /\ LET b == broadcast(manager, room, JoinMsg(player))
       IN  /\ Becomes(b.self)
           /\ call' = [call EXCEPT ![JoinTask] = b.call]
           /\ pc' = [pc EXCEPT ![JoinTask] = after_call(b.call)]
    /\ at_call' = [at_call EXCEPT ![JoinTask] =
                      [members |-> Registered("STATE", room),
                       payload |-> JoinMsg(player)]]
    /\ UNCHANGED <<endpoint, room_code, client_state, heard, hist>>

\* ------------------------------------------------------ the broadcast loop
\* A suspended `await connection.send_json/send_bytes` of task t completes
\* (sent) or raises (~sent); the loop takes its next element or ends.
Send(t, connection, sent) ==
    /\ pc[t] = "bcast"
    /\ connection \in call[t].todo
    /\ sent => Open(connection)
    /\ LET i == send_iteration(manager, call[t], connection, sent)
       IN  /\ Becomes(i.self)
           /\ call' = [call EXCEPT ![t] = i.call]
           /\ pc' = [pc EXCEPT ![t] = after_call(i.call)]
    /\ UNCHANGED <<endpoint, room_code, client_state, at_call, nevents, heard, hist>>

\* The call returns to its caller: the `while True` loop awaits the next unit,
\* join_room returns {"ok": True}.
Return(t) ==
    /\ pc[t] = "return"
    /\ pc' = [pc EXCEPT ![t] = IF t = JoinTask THEN "idle" ELSE "recv"]
    /\ call' = [call EXCEPT ![t] = NoCall]
    /\ at_call' = [at_call EXCEPT ![t] = NotCalled]
    /\ UNCHANGED <<active_connections, voice_connections, endpoint, room_code,
                   client_state, nevents, heard, hist>>

Next ==
    \/ \E h \in Handles, k \in Kinds, r \in Rooms : Upgrade(h, k, r)
    \/ \E h \in Handles, a \in BOOLEAN : GameAccept(h, a)
    \/ \E h \in Handles, a \in BOOLEAN : VoiceAccept(h, a)
    \/ \E h \in Handles, u \in Units : GameReceive(h, u)
    \/ \E h \in Handles, u \in Units : GameDisconnect(h, u)
    \/ \E h \in Handles, u \in Units : GameReceiveError(h, u)
    \/ \E h \in Handles, u \in Units : VoiceRelay(h, u)
    \/ \E h \in Handles, u \in Units : VoiceIgnore(h, u)
    \/ \E h \in Handles, u \in Units : VoiceReceiveError(h, u)
    \/ \E h \in Handles : VoiceDisconnect(h)
    \/ \E r \in Rooms, p \in Players : JoinRoom(r, p)
    \/ \E t \in Tasks, c \in Handles, s \in BOOLEAN : Send(t, c, s)
    \/ \E t \in Tasks : Return(t)

Spec == Init /\ [][Next]_vars

\* Every send that a broadcast is suspended in eventually completes or raises:
\* the loop of each task with a broadcast in progress is eventually resumed.
SpecFair ==
    Spec /\ \A t \in Tasks : WF_vars(\E c \in Handles, s \in BOOLEAN : Send(t, c, s))

\* ------------------------------------------- the registry driven directly
\* Sequences of registry operations on arbitrary arguments, as a caller of the
\* manager (a test, another handler) may issue them; hist records the
\* operations that completed.
RegConnect(room, websocket, accepted) ==
    /\ Len(hist) < MaxOps
    /\ Becomes(connect(manager, room, websocket, accepted))
    /\ hist' = IF accepted
               THEN Append(hist, [op |-> "connect", kind |-> "STATE", room |-> room,
                                  websocket |-> websocket, raised |-> FALSE])
               ELSE hist
    /\ UNCHANGED <<pc, endpoint, room_code, client_state, call, at_call, nevents,
                   heard>>

RegVoice(room, websocket, accepted) ==
    /\ Len(hist) < MaxOps
    /\ Becomes(voice_register(manager, room, websocket, accepted))
    /\ hist' = IF accepted
               THEN Append(hist, [op |-> "connect", kind |-> "VOICE", room |-> room,
                                  websocket |-> websocket, raised |-> FALSE])
               ELSE hist
    /\ UNCHANGED <<pc, endpoint, room_code, client_state, call, at_call, nevents,
                   heard>>

RegDisconnect(room, websocket) ==
    /\ Len(hist) < MaxOps
    /\ LET d == disconnect(manager, room, websocket)
       IN  /\ Becomes(d.self)
           /\ hist' = Append(hist, [op |-> "disconnect", kind |-> "BOTH", room |-> room,
                                    websocket |-> websocket, raised |-> d.raised])
    /\ UNCHANGED <<pc, endpoint, room_code, client_state, call, at_call, nevents,
                   heard>>

NextReg ==
    \/ \E r \in Rooms, w \in Handles, a \in BOOLEAN : RegConnect(r, w, a)
    \/ \E r \in Rooms, w \in Handles, a \in BOOLEAN : RegVoice(r, w, a)
    \/ \E r \in Rooms, w \in Handles : RegDisconnect(r, w)

SpecReg == Init /\ [][NextReg]_vars

\* ================================================================ claims
\* The handles the history says are in (room, kind): connected under it by
\* some operation with no later disconnect of that handle from that room.
Expected(kind, room) ==
    {w \in Handles :
        \E i \in 1..Len(hist) :
            /\ hist[i].op = "connect" /\ hist[i].kind = kind
            /\ hist[i].room = room /\ hist[i].websocket = w
            /\ \A j \in (i+1)..Len(hist) :
                   ~(hist[j].op = "disconnect" /\ hist[j].room = room
                     /\ hist[j].websocket = w)}

\* C1: after every sequence of registry operations, the membership set of each
\* (room, kind) holds exactly the handles connected under it and not
\* disconnected since, each once.
C1_MembersMatchHistory ==
    \A kind \in Kinds, room \in Rooms :
        LET d == IF kind = "STATE" THEN active_connections ELSE voice_connections
        IN  /\ DOMAIN d \subseteq Rooms
            /\ dict_get(d, room) = Expected(kind, room)

\* C1 witness: connect; disconnect; connect of one handle to one (room, kind)
\* has left a set of size 1.
C1_Reconnected ==
    /\ Len(hist) = 3
    /\ hist[1].op = "connect" /\ hist[2].op = "disconnect" /\ hist[3] = hist[1]
    /\ hist[2].room = hist[1].room /\ hist[2].websocket = hist[1].websocket
    /\ Cardinality(Registered(hist[1].kind, hist[1].room)) = 1

\* A broadcast call of task t begins in this step.
CallStarts(t) ==
    /\ call'[t] /= call[t]
    /\ call'[t].result /= "none"
    /\ call'[t].log = NoLog

\* C2: a session that has left ACTIVE (its handler returned or was left by an
\* exception) has its handle in no membership set of its room.
C2_TerminatedSessionDeregistered ==
    \A h \in Handles :
        pc[h] \in {"done", "raised"} =>
            \A kind \in Kinds : h \notin Registered(kind, room_code[h])

\* C10: once a STATE session was ended by a unit that failed to parse, no
\* broadcast that starts later has its handle among its targets.
C10_ParseFailureDeregisters ==
    [][\A h \in Handles :
          (pc[h] = "raised" /\ endpoint[h] = "STATE") =>
              \A t \in Tasks : CallStarts(t) => h \notin call'[t].todo]_vars

\* C3: a broadcast call attempts one send to every member of its snapshot,
\* whatever the outcome of the other sends: no member is skipped after a
\* failure, none is tried twice, and the call returns without an error.
C3_EveryMemberAttemptedOnce ==
    \A t \in Tasks :
        call[t].result /= "none" =>
            /\ call[t].result \in {"running", "returned"}
            /\ call[t].todo \subseteq at_call[t].members
            /\ \A h \in Handles :
                   Len(call[t].log[h]) =
                       IF h \in at_call[t].members \ call[t].todo THEN 1 ELSE 0
            /\ (call[t].result = "returned") = (call[t].todo = {})
            /\ pc[t] = IF call[t].result = "returned" THEN "return" ELSE "bcast"

\* C3 witness: a call over two members has returned although every send failed.
C3_AllSendsFailedCallReturned ==
    \E t \in Tasks :
        /\ call[t].result = "returned"
        /\ Cardinality(at_call[t].members) >= 2
        /\ \A h \in at_call[t].members :
               Len(call[t].log[h]) = 1 /\ ~call[t].log[h][1].sent

\* C4: every target of a broadcast call is a handle that was registered under
\* the call's room and kind: a session of the other kind or of another room is
\* never a target, and voice frames reach VOICE sessions only.
C4_TargetsOfSameRoomAndKind ==
    \A t \in Tasks, h \in Handles :
        (h \in call[t].todo \/ call[t].log[h] /= <<>>) =>
            /\ h \in at_call[t].members
            /\ endpoint[h] = call[t].kind
            /\ room_code[h] = call[t].room
            /\ (call[t].data \in Frames) = (endpoint[h] = "VOICE")
            /\ \A i \in 1..Len(call[t].log[h]) :
                   (call[t].log[h][i].data \in Frames) = (endpoint[h] = "VOICE")

\* C4 witness: a voice frame was relayed in a room that also has an open
\* STATE session, and that session was not a target.
C4_VoiceFrameNotSentToStateSession ==
    \E a, b \in Handles :
        /\ call[a].kind = "VOICE" /\ call[a].result = "returned"
        /\ call[a].log[a] /= <<>>
        /\ endpoint[b] = "STATE" /\ room_code[b] = room_code[a] /\ Open(b)
        /\ b \in Registered("STATE", room_code[b])
        /\ call[a].log[b] = <<>>

\* C5: a STATE session's broadcast in which no send failed has delivered the
\* received message, unchanged, exactly once to every member of the room's
\* STATE set, the sender included, and nothing to anyone else.
C5_DeliveredOnceUnchanged ==
    \A h \in Handles :
        ( /\ call[h].kind = "STATE" /\ call[h].result = "returned"
          /\ \A g \in Handles : \A i \in 1..Len(call[h].log[g]) : call[h].log[g][i].sent )
        => /\ h \in at_call[h].members
           /\ \A g \in Handles :
                  call[h].log[g] =
                      IF g \in at_call[h].members
                      THEN <<[data |-> at_call[h].payload, sent |-> TRUE]>>
                      ELSE <<>>

\* C5 witness: with two sessions in the room, the sender's message reached both.
C5_BothReceivedTheMove ==
    \E h, g \in Handles :
        /\ h /= g
        /\ call[h].kind = "STATE" /\ call[h].result = "returned"
        /\ at_call[h].members = {h, g} /\ at_call[h].payload = "move"
        /\ call[h].log[h] = <<[data |-> "move", sent |-> TRUE]>>
        /\ call[h].log[g] = <<[data |-> "move", sent |-> TRUE]>>

\* C6: no step of a broadcast call (its start, each send whatever its outcome,
\* its return) changes the registry: neither the keys nor any membership set.
C6_BroadcastLeavesRegistry ==
    [][(\E t \in Tasks : call'[t] /= call[t]) =>
           /\ active_connections' = active_connections
           /\ voice_connections' = voice_connections]_vars

\* C6 witness: a recipient whose send failed is still registered, and a
\* join_room broadcast to a room the registry never saw has returned leaving
\* no key for it.
C6_FailedRecipientRegisteredUnknownRoomAbsent ==
    \E h, g \in Handles :
        /\ call[h].log[g] /= <<>> /\ ~call[h].log[g][1].sent
        /\ g \in Registered(call[h].kind, call[h].room)
        /\ call[JoinTask].result = "returned"
        /\ call[JoinTask].room \notin DOMAIN active_connections

\* This step is a completed ConnectionManager.disconnect.
IsDisconnectStep ==
    /\ Len(hist') = Len(hist) + 1
    /\ hist'[Len(hist')].op = "disconnect"

\* C7: disconnect raises nothing; for a handle in no membership set of the
\* room (a room never created included) it leaves both dicts as they were,
\* and a second disconnect with the same arguments changes nothing.
C7_DisconnectAbsentIsNoop ==
    [][IsDisconnectStep =>
          LET o == hist'[Len(hist')]
          IN  /\ ~o.raised
              /\ (o.websocket \notin Registered("STATE", o.room) \cup Registered("VOICE", o.room))
                     => UNCHANGED <<active_connections, voice_connections>>
              /\ ( /\ Len(hist) > 0
                   /\ hist[Len(hist)].op = "disconnect"
                   /\ hist[Len(hist)].room = o.room
                   /\ hist[Len(hist)].websocket = o.websocket )
                     => UNCHANGED <<active_connections, voice_connections>>]_vars

\* C7 witness: disconnect was called twice in a row for a room that was never
\* created.
C7_DisconnectedTwiceInUnknownRoom ==
    /\ Len(hist) >= 2
    /\ hist[Len(hist)].op = "disconnect" /\ hist[Len(hist) - 1] = hist[Len(hist)]
    /\ ~hist[Len(hist)].raised
    /\ hist[Len(hist)].room \notin DOMAIN active_connections \cup DOMAIN voice_connections

\* C8: right after disconnect(room, handle) the handle is in neither the STATE
\* set nor the VOICE set of room.
C8_AbsentFromBothAfterDisconnect ==
    (Len(hist) > 0 /\ hist[Len(hist)].op = "disconnect") =>
        LET o == hist[Len(hist)]
        IN  /\ o.websocket \notin dict_get(active_connections, o.room)
            /\ o.websocket \notin dict_get(voice_connections, o.room)

\* C8 witness: the handle was in both sets of the room before the disconnect.
C8_DisconnectedFromBoth ==
    /\ Len(hist) = 3
    /\ hist[1].op = "connect" /\ hist[1].kind = "STATE"
    /\ hist[2].op = "connect" /\ hist[2].kind = "VOICE"
    /\ hist[3].op = "disconnect"
    /\ hist[1].room = hist[3].room /\ hist[2].room = hist[3].room
    /\ hist[1].websocket = hist[3].websocket /\ hist[2].websocket = hist[3].websocket

\* C9: a broadcast to a room with no member of its kind (no key, or an empty
\* set) returns at once, without error and without a single send.
C9_EmptyRoomNoSends ==
    \A t \in Tasks :
        (call[t].result /= "none" /\ at_call[t].members = {}) =>
            /\ call[t].result = "returned"
            /\ call[t].todo = {}
            /\ call[t].log = NoLog
            /\ pc[t] = "return"

\* C9 witness: the player_joined announcement went to a room whose STATE set
\* had become empty, and the call has returned.
C9_JoinAnnouncedToEmptiedRoom ==
    /\ call[JoinTask].result = "returned"
    /\ at_call[JoinTask].payload = JoinMsg("p7")
    /\ call[JoinTask].room \in DOMAIN active_connections
    /\ active_connections[call[JoinTask].room] = {}

\* ----------------------------------------------------------------- C11
\* The membership sets (kind, room) a handle is in.
InSets(x) ==
    {<<"STATE", r>> : r \in {q \in DOMAIN active_connections : x \in active_connections[q]}}
    \cup
    {<<"VOICE", r>> : r \in {q \in DOMAIN voice_connections : x \in voice_connections[q]}}

\* This step changes one of the two dicts.
RegistryChanges ==
    active_connections' /= active_connections \/ voice_connections' /= voice_connections

\* Session states of the specification: ACTIVE from a successful accept until
\* the handler ends, CLOSED once it has ended.
Active(x) == pc[x] \in {"recv", "bcast", "return"}
Closed(x) == pc[x] \in {"done", "raised"}

\* This step is a send of task t's broadcast to x that failed.
FailedSendTo(t, x) ==
    /\ Len(call'[t].log[x]) = Len(call[t].log[x]) + 1
    /\ ~call'[t].log[x][Len(call'[t].log[x])].sent

\* C11: a failed send to peer x during a broadcast of any task neither closes
\* x's session nor changes a membership set; a session leaves ACTIVE
\* for CLOSED, and a handle leaves a membership set, only in a step of that
\* session's own receive (it was awaiting a unit; no broadcast record and no
\* other task moves in the step).
C11_OnlyOwnReceiveCloses ==
    [][/\ \A t \in Tasks :
              call'[t] /= call[t] =>
                  \A x \in Handles :
                      FailedSendTo(t, x) =>
                          /\ ~(Active(x) /\ Closed(x)')
                          /\ ~RegistryChanges
       /\ (pc' /= pc \/ RegistryChanges) =>
              \A x \in Handles :
                  ((Active(x) /\ Closed(x)')
                      \/ (RegistryChanges /\ ~(InSets(x) \subseteq InSets(x)'))) =>
                          /\ pc[x] = "recv" /\ Closed(x)'
                          /\ call' = call
                          /\ \A t \in Tasks \ {x} : pc'[t] = pc[t]]_vars

\* A send of another task to x failed and x is still ACTIVE, connected and
\* registered under its own room and kind.
C11_FailedSendPeerStillActive ==
    \E t \in Tasks, x \in Handles :
        /\ t /= x
        /\ call[t].log[x] /= <<>> /\ ~call[t].log[x][1].sent
        /\ pc[x] = "recv" /\ client_state[x] = "CONNECTED"
        /\ x \in Registered(endpoint[x], room_code[x])

\* ----------------------------------------------------------------- C12
\* C12: the step in which a session terminates (its receive returned the
\* disconnect signal or failed) changes nothing of any other handle: the other
\* sessions' positions and connection states, the membership sets they are in
\* (every room, both kinds) and their broadcast records stay as they were.
C12_TerminationLeavesOthers ==
    [][\A x \in Handles :
          (Active(x) /\ Closed(x)') =>
              \A y \in Handles \ {x} :
                  /\ pc'[y] = pc[y]
                  /\ client_state'[y] = client_state[y]
                  /\ InSets(y)' = InSets(y)
                  /\ call'[y] = call[y]]_vars

\* One session of a room was closed and deregistered while another session of
\* the same room and kind is still ACTIVE and registered.
C12_PeerOutlivesClosedSession ==
    \E x \in Handles, y \in Handles :
        /\ x /= y /\ pc[x] = "done" /\ InSets(x) = {}
        /\ endpoint[y] = endpoint[x] /\ room_code[y] = room_code[x]
        /\ Active(y) /\ client_state[y] = "CONNECTED"
        /\ InSets(y) = {<<endpoint[y], room_code[y]>>}

\* ----------------------------------------------------------------- C13
\* C13: when the receive of an ACTIVE VOICE session returns a unit without
\* binary payload (no bytes key, or a null one), no broadcast record of any
\* task changes (no call starts, no send is made), the session stays where it
\* was, awaiting its next unit, and its handle stays in the same membership
\* sets, the VOICE set of its room among them; when the unit carries a binary
\* payload, a VOICE call on the session's room starts with exactly that payload
\* and the VOICE members of the room as its targets.
C13_VoiceUnitHandling ==
    [][\A h \in Handles :
          (endpoint[h] = "VOICE" /\ Active(h)) =>
              /\ heard'[h] = Append(heard[h], "None") =>
                     /\ call' = call
                     /\ pc[h] = "recv" /\ pc'[h] = "recv"
                     /\ InSets(h)' = InSets(h)
                     /\ <<"VOICE", room_code[h]>> \in InSets(h)'
              /\ \A f \in Frames :
                     heard'[h] = Append(heard[h], f) =>
                         /\ call'[h].kind = "VOICE"
                         /\ call'[h].room = room_code[h]
                         /\ call'[h].data = f
                         /\ call'[h].todo = Registered("VOICE", room_code[h])
                         /\ call'[h].log = NoLog]_vars

\* A VOICE session ignored a unit without payload and then relayed a frame,
\* which a VOICE peer of its room was sent.
C13_IgnoredThenRelayed ==
    \E h \in Handles, g \in Handles :
        /\ g /= h /\ endpoint[h] = "VOICE"
        /\ heard[h] = <<"None", "DEADBEEF">>
        /\ call[h].data = "DEADBEEF"
        /\ call[h].log[g] = <<[data |-> "DEADBEEF", sent |-> TRUE]>>

\* ----------------------------------------------------------------- C14
\* C14: a session forwards its messages in the order it received them. Every
\* send of session t carries the message t received last, and t's receive
\* returns its next unit only when no broadcast record of t is left, that is
\* after every send of the earlier message has been attempted: so for messages
\* m1 received before m2, each send of m1 to a recipient comes before each
\* send of m2 to it, whatever the other tasks do in between.
C14_ForwardedInReceiveOrder ==
    [][\A t \in Handles :
          /\ \A x \in Handles :
                 Len(call'[t].log[x]) = Len(call[t].log[x]) + 1 =>
                     /\ heard'[t] = heard[t] /\ heard[t] /= <<>>
                     /\ call'[t].log[x][Len(call'[t].log[x])].data
                            = heard[t][Len(heard[t])]
          /\ Len(heard'[t]) > Len(heard[t]) => call[t] = NoCall]_vars

\* Session t received "move" and then "roll"; the sends of "move" are over and
\* "roll" has been sent to t's own handle and to a peer.
C14_SecondMessageSentAfterFirst ==
    \E t \in Handles, x \in Handles :
        /\ x /= t
        /\ heard[t] = <<"move", "roll">>
        /\ call[t].log[t] = <<[data |-> "roll", sent |-> TRUE]>>
        /\ call[t].log[x] = <<[data |-> "roll", sent |-> TRUE]>>

\* ----------------------------------------------------------------- C15
\* This step is a send of task t's broadcast to x, whatever its outcome.
SendTo(t, x) == Len(call'[t].log[x]) = Len(call[t].log[x]) + 1

\* C15 as stated: once a session is closed and its handle deregistered, no task
\* attempts a send to the handle. A broadcast attempts its next send in the
\* step that ends the previous one, so the statement is that no step of a
\* broadcast leaves the handle of a closed session as the one target to go to
\* (read here for sessions of the STATE endpoint, whose disconnect path is the
\* one of main.py:109-110).
C15_NoSendToClosedHandle ==
    [][\A x \in Handles :
          (pc[x] = "done" /\ endpoint[x] = "STATE") =>
              \A t \in Tasks :
                  call'[t] /= call[t] => call'[t].todo /= {x}]_vars

\* C15 amended: once a session is closed and its handle deregistered, no
\* broadcast that starts afterwards has the handle among its targets; a send to
\* the handle can still be attempted, once, by a broadcast whose snapshot was
\* taken while the handle was registered.
C15_NoLaterBroadcastTargetsClosed ==
    [][\A x \in Handles :
          pc[x] = "done" =>
              \A t \in Tasks :
                  /\ CallStarts(t) => x \notin call'[t].todo
                  /\ SendTo(t, x) =>
                         /\ x \in at_call[t].members
                         /\ call[t].log[x] = <<>>]_vars

\* A broadcast that has already attempted a send to another member still has
\* the handle of a session among its targets that was closed and deregistered
\* after the snapshot.
C15_ClosedHandleStillTargeted ==
    \E t \in Tasks, x \in Handles, y \in Handles :
        /\ y /= x /\ t /= x
        /\ pc[x] = "done" /\ InSets(x) = {}
        /\ x \in call[t].todo /\ call[t].log[y] /= <<>>

\* ----------------------------------------------------------------- C16
\* The handles a call has attempted a send to so far.
Attempted(c) == {x \in Handles : c.log[x] /= <<>>}

\* C16: a broadcast in progress works on the snapshot taken at its start. A
\* step that changes a membership set (a connect or disconnect of some
\* session) leaves the call's record as it is; a step of the call itself takes
\* one not yet attempted member of the snapshot, attempts it once and does not
\* raise; and the handles attempted or still to attempt are at every moment
\* exactly the members of (room, kind) at the start of the call.
C16_IteratesOverSnapshot ==
    [][\A t \in Tasks :
          call[t].result = "running" =>
              /\ RegistryChanges => call'[t] = call[t]
              /\ (call'[t] /= call[t] /\ call'[t] /= NoCall) =>
                     /\ \E x \in call[t].todo :
                            /\ call'[t].todo = call[t].todo \ {x}
                            /\ Attempted(call'[t]) = Attempted(call[t]) \cup {x}
                            /\ Len(call'[t].log[x]) = 1
                     /\ call'[t].result \in {"running", "returned"}
                     /\ Attempted(call'[t]) \cup call'[t].todo = at_call[t].members
                     /\ Attempted(call'[t]) \cap call'[t].todo = {}]_vars

\* A handle was registered under the room and kind of a broadcast while that
\* broadcast was suspended in a send.
C16_ConnectedDuringBroadcast ==
    \E t \in Tasks, x \in Handles :
        /\ call[t].result = "running"
        /\ x \in Registered(call[t].kind, call[t].room)
        /\ x \notin at_call[t].members

\* ----------------------------------------------------------------- C17
\* C17: a handle whose upgrade has not been accepted (not yet requested,
\* pending, or refused) is in no membership set and is no target, past or
\* present, of any broadcast; and a session is never ACTIVE without its handle
\* in the set of its room and kind: the accept and the registration are one
\* step, for both endpoints.
C17_RegisteredOnlyAfterAccept ==
    \A h \in Handles :
        /\ pc[h] \in {"idle", "pending", "refused"} =>
               /\ InSets(h) = {}
               /\ \A t \in Tasks :
                      /\ h \notin call[t].todo /\ call[t].log[h] = <<>>
                      /\ h \notin at_call[t].members
        /\ Active(h) => <<endpoint[h], room_code[h]>> \in InSets(h)

\* A broadcast over the members of a room has returned while the upgrade of a
\* handle for the same room and kind was still pending.
C17_BroadcastWhilePending ==
    \E h \in Handles, t \in Tasks :
        /\ pc[h] = "pending"
        /\ call[t].result = "returned" /\ at_call[t].members /= {}
        /\ call[t].kind = endpoint[h] /\ call[t].room = room_code[h]

\* ----------------------------------------------------------------- C18
\* C18: with every handle driven by the one session it was created for, a
\* handle is at any time in at most one membership set over all rooms and both
\* kinds; in particular never in a STATE set and a VOICE set together.
C18_AtMostOneMembership ==
    \A h \in Handles : Cardinality(InSets(h)) <= 1

\* Two sessions of one room, one of each kind, each registered in its own set.
C18_OneOfEachKindRegistered ==
    \E h \in Handles, g \in Handles, r \in Rooms :
        /\ InSets(h) = {<<"STATE", r>>}
        /\ InSets(g) = {<<"VOICE", r>>}

\* ----------------------------------------------------------------- C19
RECURSIVE SumLen(_, _)
SumLen(log, S) ==
    IF S = {} THEN 0
    ELSE LET x == CHOOSE y \in S : TRUE
         IN  Len(log[x]) + SumLen(log, S \ {x})

\* The number of sends a call has attempted so far.
Attempts(c) == SumLen(c.log, Handles)

\* C19: when every send eventually completes or raises, a broadcast call of
\* any task that is in progress eventually returns, and at no moment has a call
\* attempted more sends than the room had members of its kind when the call
\* started, whatever connects to the room in the meantime.
C19_BroadcastTerminates ==
    /\ [](\A t \in Tasks : Attempts(call[t]) <= Cardinality(at_call[t].members))
    /\ \A t \in Tasks :
           (pc[t] = "bcast") ~> (pc[t] = "return" /\ call[t].result = "returned")

\* A call over one member has returned after one attempt although another
\* handle was registered under its room and kind while it was in progress.
C19_ReturnedDespiteNewMember ==
    \E t \in Tasks, x \in Handles :
        /\ call[t].result = "returned"
        /\ Cardinality(at_call[t].members) = 1 /\ Attempts(call[t]) = 1
        /\ x \in Registered(call[t].kind, call[t].room) \ at_call[t].members

====
